---- MODULE Spec2Model ----
(***************************************************************************)
(* Model of the Google Vertex supervised fine-tuning recipe                *)
(* (recipes/supervised_fine_tuning/metrics/google-vertex/                  *)
(* google_vertex.ipynb): the conversion of rendered inferences into the    *)
(* Vertex "contents" format, the batch conversion loop, the episode-level  *)
(* train/validation split and the fine-tuning job poll loop.               *)
(*                                                                         *)
(* Python values are modelled as follows.                                  *)
(*   - a function that may return a value, return None or raise returns    *)
(*     [tag |-> "ok", value |-> v], [tag |-> "none"] or                    *)
(*     [tag |-> "raise", exc |-> e];                                       *)
(*   - a list is a sequence, a dict with fixed keys is a record; a parsed   *)
(*     JSON value is [kind, items, n]: an object with its <<key, value>>   *)
(*     pairs in order, or a number;                                        *)
(*   - a JSON text is the sequence of its tokens.                          *)
(***************************************************************************)
EXTENDS Integers, Sequences, FiniteSets, TLC

VARIABLES
    \* ---- one call of inference_to_google -------------------------------
    inf,                 \* the rendered inference handed to the call
    rendered_msgs,       \* the call's local list of turns when it ended
    result,              \* what the call returned (or raised)
    \* ---- one call of merge_messages ------------------------------------
    messages,            \* the list of turns handed to the call
    merged,              \* what the call returned
    remerged,            \* merge_messages applied to that result again
    \* ---- the conversion loop and the train/validation split ------------
    VAL_FRACTION,        \* the notebook parameter, in tenths (2 is 0.2)
    rendered_inferences, \* the batch the loop runs over
    idx,                 \* position of the loop in rendered_inferences
    google_payloads,     \* the list the loop appends to
    df,                  \* pd.DataFrame(google_payloads): its rows, labelled 1..n
    unique_episode_ids,  \* the unique episode ids, after the shuffle
    split_index,
    train_df,            \* the row labels of df kept in train_df, in order
    val_df,              \* the row labels of df kept in val_df, in order
    pc,                  \* "convert", "split", "done", or the cell that raised
    \* ---- the fine-tuning job poll loop ---------------------------------
    job,                 \* the job's state at the service
    response,            \* the state held by the response object
    job_state,           \* the loop's local job_state
    poll_pc,             \* "read", "refresh", "done" (break), "raised"
    \* ---- one run of the notebook, cell by cell -------------------------
    config,              \* what toml.load gives for the file at CONFIG_PATH
    bucket,              \* the bucket BUCKET_NAME at the storage service
    bucket0,             \* the bucket as it was when the run started
    network,             \* the calls made to remote services, in order
    run_error,           \* "none", or the exception that ended the run
    run_pc,              \* the cell the run is at
    \* ---- one run of the scheduled workflow -----------------------------
    repository,          \* github.repository of the run
    jobs                 \* the state of each job of the workflow

convVars  == <<inf, rendered_msgs, result>>
mergeVars == <<messages, merged, remerged>>
batchVars == <<VAL_FRACTION, rendered_inferences, idx, google_payloads, df,
               unique_episode_ids, split_index, train_df, val_df, pc>>
pollVars == <<job, response, job_state, poll_pc>>
runVars == <<config, bucket, bucket0, network, run_error, run_pc>>
workflowVars == <<repository, jobs>>
vars == <<inf, rendered_msgs, result, messages, merged, remerged,
          VAL_FRACTION, rendered_inferences, idx, google_payloads, df,
          unique_episode_ids, split_index, train_df, val_df, pc,
          job, response, job_state, poll_pc,
          config, bucket, bucket0, network, run_error, run_pc,
          repository, jobs>>

(***************************************************************************)
(* Bounds of the model.                                                    *)
(***************************************************************************)
MaxMsgs == 1          \* input messages of one rendered inference
MaxBlocks == 2        \* content blocks of one rendered inference, in all
MaxTurns == 3         \* turns handed to merge_messages
MaxParts == 2         \* parts of one turn handed to merge_messages
MaxRecords == 3       \* rendered inferences of one batch
MaxEpisodes == 3      \* distinct episode ids of one batch
MaxSplitRows == 5     \* rows of df in the split cell taken alone

(***************************************************************************)
(* Results of a Python call.                                               *)
(***************************************************************************)
Ok(v) == [tag |-> "ok", value |-> v]
NoneR == [tag |-> "none"]
RaiseR(e) == [tag |-> "raise", exc |-> e]

(***************************************************************************)
(* Content blocks.  A block's texts carry its position k in the record, so *)
(* that a dropped, duplicated or reordered block shows.                    *)
(***************************************************************************)
Txt(k) == "t" \o ToString(k)
FnName(k) == "f" \o ToString(k)

\* JSON texts, as token sequences: {"x": k} and a truncated object.
JsonObjectText(k) == <<"{", "\"x\"", ":", ToString(k), "}">>
JsonBadText(k) == <<"{", "\"x\"", ":", ToString(k)>>

BlockShapes ==
    {"Text", "RawText", "Thought", "ToolCallDict", "ToolCallStr",
     "ToolCallBadStr", "ToolResult", "Unknown"}

\* The block of shape s at position k.
Block(s, k) ==
    CASE s = "Text" -> [type |-> "Text", text |-> Txt(k)]
      [] s = "RawText" -> [type |-> "RawText", value |-> Txt(k)]
      [] s = "Thought" -> [type |-> "Thought", text |-> Txt(k)]
      [] s = "ToolCallDict" ->
            [type |-> "ToolCall", name |-> FnName(k), args_is_str |-> FALSE,
             args_dict |-> [kind |-> "object", items |-> << <<"x", k>> >>, n |-> 0],
             args_str |-> <<>>]
      [] s = "ToolCallStr" ->
            [type |-> "ToolCall", name |-> FnName(k), args_is_str |-> TRUE,
             args_dict |-> [kind |-> "object", items |-> <<>>, n |-> 0],
             args_str |-> JsonObjectText(k)]
      [] s = "ToolCallBadStr" ->
            [type |-> "ToolCall", name |-> FnName(k), args_is_str |-> TRUE,
             args_dict |-> [kind |-> "object", items |-> <<>>, n |-> 0],
             args_str |-> JsonBadText(k)]
      [] s = "ToolResult" ->
            [type |-> "ToolResult", name |-> FnName(k), result |-> Txt(k)]
      [] OTHER -> [type |-> "Unknown"]

(***************************************************************************)
(* json.loads on a token sequence: a number, or a flat object              *)
(* { "key" : number , ... }.  Anything else raises JSONDecodeError.        *)
(***************************************************************************)
JsonObject(items) == [kind |-> "object", items |-> items, n |-> 0]
JsonNum(n) == [kind |-> "number", items |-> <<>>, n |-> n]

JsonKeys == [q \in {"\"x\"", "\"y\""} |-> IF q = "\"x\"" THEN "x" ELSE "y"]
JsonNumbers == 0..9
IsJsonNumber(tok) == \E n \in JsonNumbers : ToString(n) = tok
JsonNumber(tok) == CHOOSE n \in JsonNumbers : ToString(n) = tok

RECURSIVE json_members(_, _, _)
\* Parses toks[i..] as  "key" : number (, "key" : number)* }  after items.
json_members(toks, i, items) ==
    IF i + 3 > Len(toks) THEN RaiseR("JSONDecodeError")
    ELSE IF ~(toks[i] \in DOMAIN JsonKeys /\ toks[i + 1] = ":"
              /\ IsJsonNumber(toks[i + 2]))
    THEN RaiseR("JSONDecodeError")
    ELSE LET more == Append(items, <<JsonKeys[toks[i]], JsonNumber(toks[i + 2])>>)
         IN  IF toks[i + 3] = "}"
             THEN (IF i + 3 = Len(toks) THEN Ok(JsonObject(more))
                   ELSE RaiseR("JSONDecodeError"))
             ELSE IF toks[i + 3] = ","
             THEN json_members(toks, i + 4, more)
             ELSE RaiseR("JSONDecodeError")

json_loads(toks) ==
    IF Len(toks) = 0 THEN RaiseR("JSONDecodeError")
    ELSE IF Len(toks) = 1 /\ IsJsonNumber(toks[1])
    THEN Ok(JsonNum(JsonNumber(toks[1])))
    ELSE IF toks[1] # "{" THEN RaiseR("JSONDecodeError")
    ELSE IF Len(toks) = 2 /\ toks[2] = "}" THEN Ok(JsonObject(<<>>))
    ELSE json_members(toks, 2, <<>>)

(***************************************************************************)
(* role_map and merge_messages.                                            *)
(***************************************************************************)
role_map == [r \in {"user", "assistant", "system"} |->
                CASE r = "user" -> "user"
                  [] r = "assistant" -> "model"
                  [] OTHER -> "system"]

RECURSIVE merge_loop(_, _, _)
\* The for loop of merge_messages from message i on, merged being the list
\* built so far.
merge_loop(msgs, i, acc) ==
    IF i > Len(msgs) THEN acc
    ELSE LET msg == msgs[i]
             role == msg.role
             \* msg.get("parts", [])
             parts == IF "parts" \in DOMAIN msg THEN msg.parts ELSE <<>>
             n == Len(acc)
         IN  IF n > 0 /\ acc[n].role = role
             THEN merge_loop(msgs, i + 1,
                      [acc EXCEPT ![n].parts = acc[n].parts \o parts])
             ELSE merge_loop(msgs, i + 1,
                      Append(acc, [role |-> role, parts |-> parts]))

RECURSIVE merge_loop_prepend(_, _, _)
\* A bug to test the claims against: the merged turn takes the new parts in
\* front of the ones it holds.
merge_loop_prepend(msgs, i, acc) ==
    IF i > Len(msgs) THEN acc
    ELSE LET msg == msgs[i]
             parts == IF "parts" \in DOMAIN msg THEN msg.parts ELSE <<>>
             n == Len(acc)
         IN  IF n > 0 /\ acc[n].role = msg.role
             THEN merge_loop_prepend(msgs, i + 1,
                      [acc EXCEPT ![n].parts = parts \o acc[n].parts])
             ELSE merge_loop_prepend(msgs, i + 1,
                      Append(acc, [role |-> msg.role, parts |-> parts]))

merge_messages_prepend(msgs) == merge_loop_prepend(msgs, 1, <<>>)

RECURSIVE merge_loop_pairs(_, _, _)
\* A bug to test the claims against: a turn is merged into the one before it
\* only when that one has not been merged into yet (fresh), so a run of three
\* is left as two turns.
merge_loop_pairs(msgs, i, acc) ==
    IF i > Len(msgs) THEN [k \in 1..Len(acc) |-> [role |-> acc[k].role, parts |-> acc[k].parts]]
    ELSE LET msg == msgs[i]
             parts == IF "parts" \in DOMAIN msg THEN msg.parts ELSE <<>>
             n == Len(acc)
         IN  IF n > 0 /\ acc[n].role = msg.role /\ acc[n].fresh
             THEN merge_loop_pairs(msgs, i + 1,
                      [acc EXCEPT ![n].parts = acc[n].parts \o parts,
                                  ![n].fresh = FALSE])
             ELSE merge_loop_pairs(msgs, i + 1,
                      Append(acc, [role |-> msg.role, parts |-> parts, fresh |-> TRUE]))

merge_messages_pairs(msgs) == merge_loop_pairs(msgs, 1, <<>>)

\* merge_messages: merged starts empty and the loop runs over all messages.
merge_messages(msgs) == merge_loop(msgs, 1, <<>>)

\* A bug to test the claims against: {"role": role, "parts": parts}, the
\* merged turn holds the very list of the input turn.
new_parts_list_shared(i) == i

\* list(parts): the merged turn gets a list of its own (0); a number i > 0
\* would say its list is the parts list of input turn i.
new_parts_list(i) == 0

RECURSIVE merge_inputs_loop(_, _, _, _)
\* The same loop, followed for what it does to its argument: owners gives,
\* for each merged turn, its role and the list its parts are in, and ins is
\* the input list as the loop has left it.  extend() on a list shared with
\* an input turn changes that turn.
merge_inputs_loop(msgs, i, owners, ins) ==
    IF i > Len(msgs) THEN ins
    ELSE LET msg == ins[i]
             parts == IF "parts" \in DOMAIN msg THEN msg.parts ELSE <<>>
             n == Len(owners)
         IN  IF n > 0 /\ owners[n].role = msg.role
             THEN merge_inputs_loop(msgs, i + 1, owners,
                      IF owners[n].list = 0 THEN ins
                      ELSE [ins EXCEPT ![owners[n].list].parts = @ \o parts])
             ELSE merge_inputs_loop(msgs, i + 1,
                      Append(owners,
                             [role |-> msg.role,
                              list |-> IF "parts" \in DOMAIN msg
                                       THEN new_parts_list(i) ELSE 0]),
                      ins)

\* The argument of merge_messages(msgs) as it is when the call has returned.
merge_messages_inputs(msgs) == merge_inputs_loop(msgs, 1, <<>>, msgs)

(***************************************************************************)
(* render_chat_message.                                                    *)
(***************************************************************************)
Think(text) == "<think>" \o text \o "</think>"

FunctionCall(name, args) == [functionCall |-> [name |-> name, args |-> args]]

FunctionResponse(name, res) ==
    [functionResponse |-> [name |-> name, response |-> [result |-> res]]]

RECURSIVE render_blocks(_, _, _, _)
\* The for loop of render_chat_message from block i on, parts being the list
\* built so far.
render_blocks(role, content_blocks, i, parts) ==
    IF i > Len(content_blocks) THEN Ok(parts)
    ELSE LET blk == content_blocks[i]
         IN  CASE blk.type = "Text" ->
                    render_blocks(role, content_blocks, i + 1,
                                  Append(parts, [text |-> blk.text]))
               [] blk.type = "RawText" ->
                    render_blocks(role, content_blocks, i + 1,
                                  Append(parts, [text |-> blk.value]))
               [] blk.type = "Thought" ->
                    render_blocks(role, content_blocks, i + 1,
                                  Append(parts, [text |-> Think(blk.text)]))
               [] blk.type = "ToolCall" /\ role = "assistant" ->
                    IF blk.args_is_str
                    THEN LET args == json_loads(blk.args_str)
                         IN  IF args.tag = "ok"
                             THEN render_blocks(role, content_blocks, i + 1,
                                      Append(parts, FunctionCall(blk.name, args.value)))
                             ELSE args
                    ELSE render_blocks(role, content_blocks, i + 1,
                             Append(parts, FunctionCall(blk.name, blk.args_dict)))
               [] blk.type = "ToolResult" /\ role = "user" ->
                    render_blocks(role, content_blocks, i + 1,
                                  Append(parts, FunctionResponse(blk.name, blk.result)))
               [] OTHER -> NoneR

\* A bug to test the claims against: role_map.get(role, role).
render_chat_message_passthrough(role, content_blocks) ==
    LET parts == render_blocks(role, content_blocks, 1, <<>>)
    IN  IF parts.tag # "ok" THEN parts
        ELSE Ok([role |-> IF role \in DOMAIN role_map THEN role_map[role] ELSE role,
                 parts |-> parts.value])

\* The loop, then {"role": role_map[role], "parts": parts}: a role that is
\* no key of role_map raises KeyError there.
render_chat_message(role, content_blocks) ==
    LET parts == render_blocks(role, content_blocks, 1, <<>>)
    IN  IF parts.tag # "ok" THEN parts
        ELSE IF role \in DOMAIN role_map
        THEN Ok([role |-> role_map[role], parts |-> parts.value])
        ELSE RaiseR("KeyError")

(***************************************************************************)
(* inference_to_google.  The operators return the call's frame:            *)
(* [ret |-> what the call returns or raises,                               *)
(*  rendered_msgs |-> its local list of turns at that point].              *)
(***************************************************************************)
RECURSIVE render_input_messages(_, _, _)
\* Step 2: the loop over model_input.messages from message i on.
render_input_messages(msgs, i, rendered) ==
    IF i > Len(msgs) THEN [ret |-> Ok(rendered), rendered_msgs |-> rendered]
    ELSE LET r == render_chat_message(msgs[i].role, msgs[i].content)
         IN  IF r.tag = "ok"
             THEN render_input_messages(msgs, i + 1, Append(rendered, r.value))
             ELSE [ret |-> r, rendered_msgs |-> rendered]

RECURSIVE render_output_no_thought(_, _, _)
\* A bug to test the claims against: the output loop leaves Thought blocks out.
render_output_no_thought(output, i, out_parts) ==
    IF i > Len(output) THEN Ok(out_parts)
    ELSE LET blk == output[i]
         IN  CASE blk.type = "Text" ->
                    render_output_no_thought(output, i + 1,
                                             Append(out_parts, [text |-> blk.text]))
               [] blk.type = "Thought" ->
                    render_output_no_thought(output, i + 1, out_parts)
               [] blk.type = "ToolCall" ->
                    IF blk.args_is_str
                    THEN LET args == json_loads(blk.args_str)
                         IN  IF args.tag = "ok"
                             THEN render_output_no_thought(output, i + 1,
                                      Append(out_parts, FunctionCall(blk.name, args.value)))
                             ELSE args
                    ELSE render_output_no_thought(output, i + 1,
                             Append(out_parts, FunctionCall(blk.name, blk.args_dict)))
               [] OTHER -> NoneR

RECURSIVE render_output(_, _, _)
\* Step 3: the loop over inf.output from block i on.
render_output(output, i, out_parts) ==
    IF i > Len(output) THEN Ok(out_parts)
    ELSE LET blk == output[i]
         IN  CASE blk.type = "Text" ->
                    render_output(output, i + 1, Append(out_parts, [text |-> blk.text]))
               [] blk.type = "Thought" ->
                    render_output(output, i + 1,
                                  Append(out_parts, [text |-> Think(blk.text)]))
               [] blk.type = "ToolCall" ->
                    IF blk.args_is_str
                    THEN LET args == json_loads(blk.args_str)
                         IN  IF args.tag = "ok"
                             THEN render_output(output, i + 1,
                                      Append(out_parts, FunctionCall(blk.name, args.value)))
                             ELSE args
                    ELSE render_output(output, i + 1,
                             Append(out_parts, FunctionCall(blk.name, blk.args_dict)))
               [] OTHER -> NoneR

\* Step 1: the systemInstruction turn, when model_input.system is truthy.
system_instruction(model_input) ==
    [role |-> role_map["system"], parts |-> <<[text |-> model_input.system]>>]

\* Step 4: merge and build the result dict.
build_result(i2g_inf, msgs) ==
    LET contents == merge_messages(msgs)
    IN  IF i2g_inf.input.system # ""
        THEN [google_messages |->
                  [contents |-> contents,
                   systemInstruction |-> system_instruction(i2g_inf.input)],
              episode_id |-> i2g_inf.episode_id]
        ELSE [google_messages |-> [contents |-> contents],
              episode_id |-> i2g_inf.episode_id]

inference_to_google_frame(i2g_inf) ==
    LET ins == render_input_messages(i2g_inf.input.messages, 1, <<>>)
    IN  IF ins.ret.tag # "ok" THEN ins
        ELSE LET out == render_output(i2g_inf.output, 1, <<>>)
             IN  IF out.tag # "ok"
                 THEN [ret |-> out, rendered_msgs |-> ins.rendered_msgs]
                 ELSE LET all == Append(ins.rendered_msgs,
                                        [role |-> role_map["assistant"],
                                         parts |-> out.value])
                      IN  [ret |-> Ok(build_result(i2g_inf, all)),
                           rendered_msgs |-> merge_messages_inputs(all)]

inference_to_google(i2g_inf) == inference_to_google_frame(i2g_inf).ret

(***************************************************************************)
(* The rendered inferences the model draws its inputs from.                *)
(***************************************************************************)
Roles == {"user", "assistant", "system", "tool"}   \* "tool": not in role_map
Systems == {"", "Be concise"}

RECURSIVE SumTo(_, _)
SumTo(f, n) == IF n = 0 THEN 0 ELSE f[n] + SumTo(f, n - 1)

\* Blocks off+1 .. off+len of the record, with the shapes given.
MkContent(shapes, off, len) == [b \in 1..len |-> Block(shapes[off + b], off + b)]

\* The inference with messages of roles[j] holding lens[j] blocks each and an
\* output of lens[m+1] blocks.
MkInference(e, sys, roles, lens, shapes) ==
    LET m == Len(roles)
    IN  [episode_id |-> e,
         input |-> [system |-> sys,
                    messages |-> [j \in 1..m |->
                        [role |-> roles[j],
                         content |-> MkContent(shapes, SumTo(lens, j - 1), lens[j])]]],
         output |-> MkContent(shapes, SumTo(lens, m), lens[m + 1])]

(***************************************************************************)
(* Specification SpecConvert: inference_to_google on one rendered          *)
(* inference.                                                              *)
(***************************************************************************)
ConvIdle ==
    /\ inf = [episode_id |-> 0, input |-> [system |-> "", messages |-> <<>>],
              output |-> <<>>]
    /\ rendered_msgs = <<>>
    /\ result = [tag |-> "idle"]

MergeIdle ==
    /\ messages = <<>>
    /\ merged = [tag |-> "idle"]
    /\ remerged = [tag |-> "idle"]

BatchIdle ==
    /\ VAL_FRACTION = 2
    /\ rendered_inferences = <<>>
    /\ idx = 0
    /\ google_payloads = <<>>
    /\ df = <<>>
    /\ unique_episode_ids = <<>>
    /\ split_index = 0
    /\ train_df = <<>>
    /\ val_df = <<>>
    /\ pc = "idle"

PollIdle ==
    /\ job = "JOB_STATE_UNSPECIFIED"
    /\ response = "JOB_STATE_UNSPECIFIED"
    /\ job_state = "unset"
    /\ poll_pc = "idle"

RunIdle ==
    /\ config = [functions |-> {}, variants |-> {}, metrics |-> {},
                 optimize |-> FALSE, type |-> "none"]
    /\ bucket = [exists |-> FALSE, objects |-> <<>>]
    /\ bucket0 = bucket
    /\ network = <<>>
    /\ run_error = "none"
    /\ run_pc = "idle"

WorkflowIdle ==
    /\ repository = "none"
    /\ jobs = <<>>

InitConvert ==
    /\ \E m \in 0..MaxMsgs, sys \in Systems :
         \E roles \in [1..m -> Roles], lens \in [1..(m + 1) -> 0..MaxBlocks] :
            /\ SumTo(lens, m + 1) <= MaxBlocks
            /\ \E shapes \in [1..SumTo(lens, m + 1) -> BlockShapes] :
                  inf = MkInference(1, sys, roles, lens, shapes)
    /\ rendered_msgs = <<>>
    /\ result = [tag |-> "pending"]
    /\ MergeIdle
    /\ BatchIdle
    /\ PollIdle
    /\ RunIdle
    /\ WorkflowIdle

\* payload = inference_to_google(inf)
Convert ==
    /\ result.tag = "pending"
    /\ LET frame == inference_to_google_frame(inf)
       IN  /\ result' = frame.ret
           /\ rendered_msgs' = frame.rendered_msgs
    /\ UNCHANGED <<inf, mergeVars, batchVars, pollVars,
                   runVars, workflowVars>>

NextConvert == Convert

SpecConvert == InitConvert /\ [][NextConvert]_vars

(***************************************************************************)
(* Specification SpecMerge: merge_messages on a list of turns, and on its  *)
(* own result.  A turn may lack the "parts" key (msg.get("parts", [])).    *)
(***************************************************************************)
TurnRoles == {"user", "model", "system"}

\* Part j of turn i.
Part(i, j) == [text |-> "p" \o ToString(i) \o "." \o ToString(j)]

\* The turn at position i: no "parts" key when len = -1, else len parts.
MkTurn(role, i, len) ==
    IF len = -1 THEN [role |-> role]
    ELSE [role |-> role, parts |-> [j \in 1..len |-> Part(i, j)]]

InitMerge ==
    /\ \E n \in 0..MaxTurns :
         \E roles \in [1..n -> TurnRoles], lens \in [1..n -> -1..MaxParts] :
            messages = [i \in 1..n |-> MkTurn(roles[i], i, lens[i])]
    /\ merged = [tag |-> "pending"]
    /\ remerged = [tag |-> "pending"]
    /\ ConvIdle
    /\ BatchIdle
    /\ PollIdle
    /\ RunIdle
    /\ WorkflowIdle

\* merged = merge_messages(messages)
Merge ==
    /\ merged.tag = "pending"
    /\ merged' = Ok(merge_messages(messages))
    /\ messages' = merge_messages_inputs(messages)
    /\ UNCHANGED <<remerged, convVars, batchVars, pollVars,
                   runVars, workflowVars>>

\* merge_messages(merged): the merge step run a second time
MergeAgain ==
    /\ merged.tag = "ok"
    /\ remerged.tag = "pending"
    /\ remerged' = Ok(merge_messages(merged.value))
    /\ UNCHANGED <<messages, merged, convVars, batchVars, pollVars,
                   runVars, workflowVars>>

NextMerge == Merge \/ MergeAgain

SpecMerge == InitMerge /\ [][NextMerge]_vars

(***************************************************************************)
(* Specification SpecBatch: the conversion loop over rendered_inferences,  *)
(* df = pd.DataFrame(google_payloads), and the split cell.  A cell that    *)
(* raises ends the run there.                                              *)
(***************************************************************************)
\* The spec's end-to-end example: system "Be concise", a user text, a text
\* output.
GoodInference(e) ==
    MkInference(e, "Be concise", <<"user">>, <<1, 1>>, <<"Text", "Text">>)

\* A ToolResult on an assistant message: the wrong role for the block.
UnsupportedInference(e) ==
    MkInference(e, "", <<"assistant">>, <<1, 1>>, <<"ToolResult", "Text">>)

\* An assistant tool call whose string arguments are not valid JSON.
BadJsonInference(e) ==
    MkInference(e, "", <<"assistant">>, <<1, 1>>, <<"ToolCallBadStr", "Text">>)

BatchInferences ==
    UNION {{GoodInference(e), UnsupportedInference(e), BadJsonInference(e)} :
           e \in 1..MaxEpisodes}

ValFractions == 1..9      \* tenths: 0.1 .. 0.9

InitBatch ==
    /\ VAL_FRACTION \in ValFractions
    /\ \E n \in 0..MaxRecords :
          rendered_inferences \in [1..n -> BatchInferences]
    /\ idx = 1
    /\ google_payloads = <<>>
    /\ df = <<>>
    /\ unique_episode_ids = <<>>
    /\ split_index = 0
    /\ train_df = <<>>
    /\ val_df = <<>>
    /\ pc = "convert"
    /\ ConvIdle
    /\ MergeIdle
    /\ PollIdle
    /\ RunIdle
    /\ WorkflowIdle

\* One iteration of  for inf in rendered_inferences:  the call, and the
\* append when the payload is not None.  An exception of the call leaves the
\* loop and the cell.
ConvertNext ==
    /\ pc = "convert"
    /\ idx <= Len(rendered_inferences)
    /\ LET payload == inference_to_google(rendered_inferences[idx])
       IN  CASE payload.tag = "ok" ->
                  /\ google_payloads' = Append(google_payloads, payload.value)
                  /\ idx' = idx + 1
                  /\ pc' = pc
             [] payload.tag = "none" ->
                  /\ idx' = idx + 1
                  /\ UNCHANGED <<google_payloads, pc>>
             [] OTHER ->
                  /\ pc' = "convert_raised"
                  /\ UNCHANGED <<google_payloads, idx>>
    /\ UNCHANGED <<VAL_FRACTION, rendered_inferences, df, unique_episode_ids,
                   split_index, train_df, val_df, convVars, mergeVars, pollVars,
                   runVars, workflowVars>>

\* The loop is over: df = pd.DataFrame(google_payloads).
MakeDataFrame ==
    /\ pc = "convert"
    /\ idx > Len(rendered_inferences)
    /\ df' = google_payloads
    /\ pc' = "split"
    /\ UNCHANGED <<VAL_FRACTION, rendered_inferences, idx, google_payloads,
                   unique_episode_ids, split_index, train_df, val_df,
                   convVars, mergeVars, pollVars,
                   runVars, workflowVars>>

RECURSIVE unique_loop(_, _, _)
\* Series.unique(): the distinct values in order of first appearance.
unique_loop(col, i, seen) ==
    IF i > Len(col) THEN seen
    ELSE IF \E k \in 1..Len(seen) : seen[k] = col[i]
    THEN unique_loop(col, i + 1, seen)
    ELSE unique_loop(col, i + 1, Append(seen, col[i]))

unique(col) == unique_loop(col, 1, <<>>)

\* The orders np.random.shuffle may leave the array in.
Shuffles(arr) ==
    {p \in [1..Len(arr) -> {arr[k] : k \in 1..Len(arr)}] :
        \A a, b \in 1..Len(arr) : a # b => p[a] # p[b]}

\* int(n * (1 - VAL_FRACTION)) in binary64, VAL_FRACTION being t tenths.
\* 1 - 0.8 and 1 - 0.9 round below 0.2 and 0.1, so the product falls just
\* short of the integer whenever n * (10 - t) is a multiple of 10 (computed
\* for n up to 30); for the other tenths the result is the exact floor.
split_index_of(n, t) ==
    LET exact == (n * (10 - t)) \div 10
    IN  IF n > 0 /\ ((t = 8 /\ n % 5 = 0) \/ (t = 9 /\ n % 10 = 0))
        THEN exact - 1
        ELSE exact

\* unique_episode_ids[:split_index]
train_ids(ids, k) == SubSeq(ids, 1, k)

\* A bug to test the claims against: the validation slice starts one early.
val_ids_overlap(ids, k) == SubSeq(ids, IF k > 0 THEN k ELSE 1, Len(ids))

\* unique_episode_ids[split_index:]
val_ids(ids, k) == SubSeq(ids, k + 1, Len(ids))

\* df[df["episode_id"].isin(ids)]: the labels of the rows kept, in order.
rows_isin(frame, ids) ==
    SelectSeq([r \in 1..Len(frame) |-> r],
              LAMBDA r : \E k \in 1..Len(ids) : ids[k] = frame[r].episode_id)

\* The split cell.  An empty df has no "episode_id" column: KeyError.
Split ==
    /\ pc = "split"
    /\ IF Len(df) = 0
       THEN /\ pc' = "split_raised"
            /\ UNCHANGED <<unique_episode_ids, split_index, train_df, val_df>>
       ELSE \E shuffled \in Shuffles(unique([r \in 1..Len(df) |-> df[r].episode_id])) :
              LET k == split_index_of(Len(shuffled), VAL_FRACTION)
              IN  /\ unique_episode_ids' = shuffled
                  /\ split_index' = k
                  /\ train_df' = rows_isin(df, train_ids(shuffled, k))
                  /\ val_df' = rows_isin(df, val_ids(shuffled, k))
                  /\ pc' = "done"
    /\ UNCHANGED <<VAL_FRACTION, rendered_inferences, idx, google_payloads, df,
                   convVars, mergeVars, pollVars,
                   runVars, workflowVars>>

NextBatch == ConvertNext \/ MakeDataFrame \/ Split

SpecBatch == InitBatch /\ [][NextBatch]_vars

(***************************************************************************)
(* Specification SpecSplit: the split cell alone, on a df of up to         *)
(* MaxSplitRows converted examples.  Episode ids are opaque to the cell,   *)
(* so the frames number the episodes in order of first appearance.         *)
(***************************************************************************)
\* Row i has an episode seen before it or the next new one.
EpisodeColumns(n) ==
    {col \in [1..n -> 1..n] :
        \A i \in 1..n :
            col[i] <= 1 + Cardinality({col[j] : j \in 1..(i - 1)})}

SplitFrames ==
    UNION {{[r \in 1..n |-> inference_to_google(GoodInference(col[r])).value] :
              col \in EpisodeColumns(n)} : n \in 0..MaxSplitRows}

InitSplit ==
    /\ VAL_FRACTION \in ValFractions
    /\ df \in SplitFrames
    /\ google_payloads = df
    /\ rendered_inferences = <<>>
    /\ idx = 1
    /\ unique_episode_ids = <<>>
    /\ split_index = 0
    /\ train_df = <<>>
    /\ val_df = <<>>
    /\ pc = "split"
    /\ ConvIdle
    /\ MergeIdle
    /\ PollIdle
    /\ RunIdle
    /\ WorkflowIdle

NextSplit == Split

SpecSplit == InitSplit /\ [][NextSplit]_vars

(***************************************************************************)
(* Specification SpecPoll: the loop that waits for the fine-tuning job.    *)
(* response.state reads the state the response object holds;               *)
(* response.refresh() fetches the job from the service.  The job advances  *)
(* at the service on its own.                                              *)
(***************************************************************************)
JobStates ==
    {"JOB_STATE_QUEUED", "JOB_STATE_PENDING", "JOB_STATE_RUNNING",
     "JOB_STATE_SUCCEEDED", "JOB_STATE_FAILED", "JOB_STATE_CANCELLING",
     "JOB_STATE_CANCELLED", "JOB_STATE_EXPIRED"}

\* The steps of a job at the service; succeeded, failed, cancelled and
\* expired are never left.
JobStep(a, b) ==
    \/ a = "JOB_STATE_QUEUED" /\ b \in {"JOB_STATE_PENDING", "JOB_STATE_CANCELLING",
                                         "JOB_STATE_EXPIRED"}
    \/ a = "JOB_STATE_PENDING" /\ b \in {"JOB_STATE_RUNNING", "JOB_STATE_CANCELLING"}
    \/ a = "JOB_STATE_RUNNING" /\ b \in {"JOB_STATE_SUCCEEDED", "JOB_STATE_FAILED",
                                          "JOB_STATE_CANCELLING"}
    \/ a = "JOB_STATE_CANCELLING" /\ b = "JOB_STATE_CANCELLED"

\* A bug to test the claims against: the cancelled state is left out.
break_states_no_cancelled == {"JOB_STATE_SUCCEEDED", "JOB_STATE_FAILED"}

\* The tuple of states the loop breaks on.
break_states ==
    {"JOB_STATE_SUCCEEDED", "JOB_STATE_FAILED", "JOB_STATE_CANCELLED"}

\* response = sft.SupervisedTuningJob(...): the job as it is when fetched.
InitPoll ==
    /\ job \in JobStates
    /\ response = job
    /\ job_state = "unset"
    /\ poll_pc = "read"
    /\ ConvIdle
    /\ MergeIdle
    /\ BatchIdle
    /\ RunIdle
    /\ WorkflowIdle

\* The service moves the job on.
JobAdvance ==
    /\ poll_pc # "idle"
    /\ \E s \in JobStates : JobStep(job, s) /\ job' = s
    /\ UNCHANGED <<response, job_state, poll_pc, convVars, mergeVars, batchVars,
                 runVars, workflowVars>>

\* The try block when response.state returns: job_state is set and printed,
\* and the loop breaks on a state of the tuple.
ReadState ==
    /\ poll_pc = "read"
    /\ job_state' = response
    /\ poll_pc' = IF response \in break_states THEN "done" ELSE "refresh"
    /\ UNCHANGED <<job, response, convVars, mergeVars, batchVars,
                 runVars, workflowVars>>

\* The try block when response.state raises: the except clause prints the
\* error and the iteration goes on.
ReadStateRaises ==
    /\ poll_pc = "read"
    /\ poll_pc' = "refresh"
    /\ UNCHANGED <<job, response, job_state, convVars, mergeVars, batchVars,
                 runVars, workflowVars>>

\* response.refresh() returns, then time.sleep(10) and the next iteration.
Refresh ==
    /\ poll_pc = "refresh"
    /\ response' = job
    /\ poll_pc' = "read"
    /\ UNCHANGED <<job, job_state, convVars, mergeVars, batchVars,
                 runVars, workflowVars>>

\* response.refresh() raises: it is outside the try block, the exception
\* leaves the loop.
RefreshRaises ==
    /\ poll_pc = "refresh"
    /\ poll_pc' = "raised"
    /\ UNCHANGED <<job, response, job_state, convVars, mergeVars, batchVars,
                 runVars, workflowVars>>

NextPoll == JobAdvance \/ ReadState \/ ReadStateRaises \/ Refresh \/ RefreshRaises

SpecPoll == InitPoll /\ [][NextPoll]_vars

\* The loop keeps running (the interpreter takes the next step), and
\* response.state does not fail for ever.
FairPoll ==
    /\ WF_vars(ReadState \/ ReadStateRaises)
    /\ WF_vars(Refresh \/ RefreshRaises)
    /\ SF_vars(ReadState)

FairSpecPoll == SpecPoll /\ FairPoll

(***************************************************************************)
(* Specification SpecRun: one run of the notebook from its first cell to   *)
(* the submission of the fine-tuning job.  A cell that raises ends the     *)
(* run.  The cells that render, convert and split (SpecBatch) are one step *)
(* here; the poll loop (SpecPoll) follows the last step.                   *)
(***************************************************************************)
FUNCTION_NAME == "extract_entities"
METRIC_NAME == "exact_match"
TEMPLATE_VARIANT_NAME == "gpt_4o_mini"

\* The configuration files of the model: the functions of the file, the
\* variants of the function FUNCTION_NAME (when the file has it), the
\* metrics of the file, and of the metric METRIC_NAME (when the file has it)
\* whether it has an optimize field, and its type.
Configs ==
    [functions : SUBSET {FUNCTION_NAME, "other_function"},
     variants : SUBSET {TEMPLATE_VARIANT_NAME, "other_variant"},
     metrics : SUBSET {METRIC_NAME, "other_metric"},
     optimize : BOOLEAN,
     type : {"float", "boolean", "other"}]

\* The names of the two objects of a run, and what an object can hold.
train_file_name == "train_uuid7.jsonl"
val_file_name == "val_uuid7.jsonl"
ObjectNames == {train_file_name, val_file_name}
Contents == {"absent", "old", "train_df", "val_df"}

\* The bucket when the run starts: missing, or there with any of the two
\* names taken by an object written earlier.
Buckets ==
    {[exists |-> FALSE, objects |-> [n \in ObjectNames |-> "absent"]]}
    \cup {[exists |-> TRUE, objects |-> o] :
            o \in [ObjectNames -> {"absent", "old"}]}

InitRun ==
    /\ config \in Configs
    /\ bucket \in Buckets
    /\ bucket0 = bucket
    /\ network = <<>>
    /\ run_error = "none"
    /\ run_pc = "vertexai_init"
    /\ ConvIdle
    /\ MergeIdle
    /\ BatchIdle
    /\ PollIdle
    /\ WorkflowIdle

Running(cell) == run_pc = cell /\ run_error = "none"

\* vertexai.init(project=PROJECT_ID, location=LOCATION): sets the defaults
\* of the SDK, no request is made.
VertexInit ==
    /\ Running("vertexai_init")
    /\ run_pc' = "build_embedded"
    /\ UNCHANGED <<config, bucket, bucket0, network, run_error,
                   convVars, mergeVars, batchVars, pollVars, workflowVars>>

\* TensorZeroGateway.build_embedded(config_file, clickhouse_url, timeout):
\* the embedded gateway connects to ClickHouse when it is built.
BuildEmbedded ==
    /\ Running("build_embedded")
    /\ network' = Append(network, "clickhouse_connect")
    /\ run_pc' = "load_config"
    /\ UNCHANGED <<config, bucket, bucket0, run_error,
                   convVars, mergeVars, batchVars, pollVars, workflowVars>>

\* The file is read again with toml.load.
LoadConfig ==
    /\ Running("load_config")
    /\ run_pc' = "validate_config"
    /\ UNCHANGED <<config, bucket, bucket0, network, run_error,
                   convVars, mergeVars, batchVars, pollVars, workflowVars>>

\* The four asserts on the function and its variant.
validate_config(c) ==
    /\ FUNCTION_NAME \in c.functions
    /\ TEMPLATE_VARIANT_NAME \in c.variants

\* A bug to test the claims against: the metric is not looked up.
metric_config_unchecked(c) == TRUE

\* The two asserts on the metric.
metric_config(c) == METRIC_NAME \in c.metrics

\* A failed assert ends the run at the cell.
AssertCell(cell, ok, next) ==
    /\ Running(cell)
    /\ IF ok
       THEN run_pc' = next /\ UNCHANGED run_error
       ELSE run_error' = "AssertionError" /\ UNCHANGED run_pc
    /\ UNCHANGED <<config, bucket, bucket0, network,
                   convVars, mergeVars, batchVars, pollVars, workflowVars>>

ValidateConfig ==
    AssertCell("validate_config", validate_config(config), "metric_config")

MetricConfig ==
    AssertCell("metric_config", metric_config(config), "metric_filter")

\* The metric filter: the assert on the optimize field; a type that is
\* neither float nor boolean leaves metric_node unbound and the last line of
\* the cell raises NameError.
MetricFilter ==
    /\ Running("metric_filter")
    /\ IF ~config.optimize
       THEN run_error' = "AssertionError" /\ UNCHANGED run_pc
       ELSE IF config.type \notin {"float", "boolean"}
       THEN run_error' = "NameError" /\ UNCHANGED run_pc
       ELSE run_pc' = "list_inferences" /\ UNCHANGED run_error
    /\ UNCHANGED <<config, bucket, bucket0, network,
                   convVars, mergeVars, batchVars, pollVars, workflowVars>>

\* tensorzero_client.experimental_list_inferences(...): the query.
ListInferences ==
    /\ Running("list_inferences")
    /\ network' = Append(network, "list_inferences")
    /\ run_pc' = "prepare"
    /\ UNCHANGED <<config, bucket, bucket0, run_error,
                   convVars, mergeVars, batchVars, pollVars, workflowVars>>

\* The cells from experimental_render_inferences to the split, which make
\* no request; a cell of them that raises ends the run.
Prepare ==
    /\ Running("prepare")
    /\ \/ run_pc' = "upload_train" /\ UNCHANGED run_error
       \/ run_error' = "Exception" /\ UNCHANGED run_pc
    /\ UNCHANGED <<config, bucket, bucket0, network,
                   convVars, mergeVars, batchVars, pollVars, workflowVars>>

\* A bug to test the claims against: the upload without its precondition.
upload_from_filename_overwrite(objects, name, content) ==
    [objects |-> [objects EXCEPT ![name] = content], error |-> "none"]

\* blob.upload_from_filename(f.name, if_generation_match=0): the service
\* takes the upload only when the name has no live object, and answers
\* 412 Precondition Failed otherwise.
upload_from_filename(objects, name, content) ==
    IF objects[name] # "absent"
    THEN [objects |-> objects, error |-> "PreconditionFailed"]
    ELSE [objects |-> [objects EXCEPT ![name] = content], error |-> "none"]

\* upload_dataset_to_gcp(df, dataset_name, gcp_client): the bucket is looked
\* up and created when missing, then the one upload; transport says whether
\* the upload request gets through.
upload_dataset_to_gcp(b, content, dataset_name, transport) ==
    LET made == IF b.exists THEN b ELSE [b EXCEPT !.exists = TRUE]
        calls == <<"bucket_exists">>
                 \o (IF b.exists THEN <<>> ELSE <<"create_bucket">>)
                 \o << "upload " \o dataset_name >>
        up == upload_from_filename(made.objects, dataset_name, content)
    IN  IF ~transport
        THEN [bucket |-> made, calls |-> calls, error |-> "TransportError"]
        ELSE [bucket |-> [made EXCEPT !.objects = up.objects],
              calls |-> calls, error |-> up.error]

UploadCell(cell, content, dataset_name, next) ==
    /\ Running(cell)
    /\ \E transport \in BOOLEAN :
         LET r == upload_dataset_to_gcp(bucket, content, dataset_name, transport)
         IN  /\ bucket' = r.bucket
             /\ network' = network \o r.calls
             /\ IF r.error = "none"
                THEN run_pc' = next /\ UNCHANGED run_error
                ELSE run_error' = r.error /\ UNCHANGED run_pc
    /\ UNCHANGED <<config, bucket0,
                   convVars, mergeVars, batchVars, pollVars, workflowVars>>

\* upload_dataset_to_gcp(train_df, train_file_name, gcp_client)
UploadTrain == UploadCell("upload_train", "train_df", train_file_name, "upload_val")

\* upload_dataset_to_gcp(val_df, val_file_name, gcp_client)
UploadVal == UploadCell("upload_val", "val_df", val_file_name, "sft_train")

\* sft_tuning_job = sft.train(...): the job is submitted.
SftTrain ==
    /\ Running("sft_train")
    /\ network' = Append(network, "sft_train")
    /\ run_pc' = "poll"
    /\ UNCHANGED <<config, bucket, bucket0, run_error,
                   convVars, mergeVars, batchVars, pollVars, workflowVars>>

NextRun ==
    \/ VertexInit
    \/ BuildEmbedded
    \/ LoadConfig
    \/ ValidateConfig
    \/ MetricConfig
    \/ MetricFilter
    \/ ListInferences
    \/ Prepare
    \/ UploadTrain
    \/ UploadVal
    \/ SftTrain

SpecRun == InitRun /\ [][NextRun]_vars

(***************************************************************************)
(* Specification SpecWorkflow: one run of the scheduled workflow.  A job   *)
(* with no needs is evaluated when the run starts; a job with needs is     *)
(* evaluated when every job it needs has completed, and, its condition     *)
(* calling no status function, it is skipped unless all of them succeeded. *)
(***************************************************************************)
BatchJobs == {"openai-batch", "google-vertex-batch", "anthropic-batch"}

JobNames == BatchJobs \cup {"log-completion"}

\* A bug to test the claims against: log-completion needs nothing.
needs_nothing(j) == {}

\* needs: of each job.
needs(j) == IF j = "log-completion" THEN BatchJobs ELSE {}

\* if: github.repository == 'tensorzero/tensorzero', the same on every job.
if_condition(j) == repository = "tensorzero/tensorzero"

Completed == {"success", "failure", "skipped"}

\* The repository itself, or a fork of it.
Repositories == {"tensorzero/tensorzero", "dowithless/tensorzero"}

InitWorkflow ==
    /\ repository \in Repositories
    /\ jobs = [j \in JobNames |-> "pending"]
    /\ ConvIdle
    /\ MergeIdle
    /\ BatchIdle
    /\ PollIdle
    /\ RunIdle

NeedsCompleted(j) == \A d \in needs(j) : jobs[d] \in Completed

NeedsSucceeded(j) == \A d \in needs(j) : jobs[d] = "success"

\* The job is evaluated and goes on the queue of its runner (runs-on).
QueueJob(j) ==
    /\ jobs[j] = "pending"
    /\ NeedsCompleted(j)
    /\ NeedsSucceeded(j)
    /\ if_condition(j)
    /\ jobs' = [jobs EXCEPT ![j] = "queued"]
    /\ UNCHANGED <<repository, convVars, mergeVars, batchVars, pollVars, runVars>>

\* A runner takes the job and starts its steps.
StartJob(j) ==
    /\ jobs[j] = "queued"
    /\ jobs' = [jobs EXCEPT ![j] = "running"]
    /\ UNCHANGED <<repository, convVars, mergeVars, batchVars, pollVars, runVars>>

\* The job is skipped: its condition is false, or a job it needs did not
\* succeed.
SkipJob(j) ==
    /\ jobs[j] = "pending"
    /\ NeedsCompleted(j)
    /\ ~(NeedsSucceeded(j) /\ if_condition(j))
    /\ jobs' = [jobs EXCEPT ![j] = "skipped"]
    /\ UNCHANGED <<repository, convVars, mergeVars, batchVars, pollVars, runVars>>

\* The steps of the job end: all passed, or one failed.
FinishJob(j) ==
    /\ jobs[j] = "running"
    /\ \E outcome \in {"success", "failure"} :
          jobs' = [jobs EXCEPT ![j] = outcome]
    /\ UNCHANGED <<repository, convVars, mergeVars, batchVars, pollVars, runVars>>

NextWorkflow ==
    \/ \E j \in JobNames : QueueJob(j)
    \/ \E j \in JobNames : StartJob(j)
    \/ \E j \in JobNames : SkipJob(j)
    \/ \E j \in JobNames : FinishJob(j)

SpecWorkflow == InitWorkflow /\ [][NextWorkflow]_vars

\* The scheduler evaluates every job that can be evaluated, and a running
\* job ends.
FairWorkflow ==
    \A j \in JobNames :
        /\ WF_vars(QueueJob(j))
        /\ WF_vars(StartJob(j))
        /\ WF_vars(SkipJob(j))
        /\ WF_vars(FinishJob(j))

FairSpecWorkflow == SpecWorkflow /\ FairWorkflow

(***************************************************************************)
(* Claims about merge_messages (SpecMerge).                                *)
(***************************************************************************)
TurnParts(t) == IF "parts" \in DOMAIN t THEN t.parts ELSE <<>>

\* The positions where a run of equal roles starts, and where it ends.
RunStarts(turns) ==
    {i \in 1..Len(turns) : i = 1 \/ turns[i].role # turns[i - 1].role}

RunEnd(turns, s) ==
    CHOOSE e \in s..Len(turns) :
        /\ \A j \in s..e : turns[j].role = turns[s].role
        /\ (e = Len(turns) \/ turns[e + 1].role # turns[s].role)

RECURSIVE RunParts(_, _, _)
\* The parts of turns s..e, one after the other.
RunParts(turns, s, e) ==
    IF s > e THEN <<>> ELSE TurnParts(turns[s]) \o RunParts(turns, s + 1, e)

\* C7: merge_messages merges every maximal run of adjacent turns with the
\* same role into one turn whose parts are the run's parts in encounter
\* order; no two adjacent turns of the result share a role; turns of
\* different roles are neither merged nor reordered.
C7_MergeRuns ==
    merged.tag = "ok" =>
        LET M == merged.value
            S == RunStarts(messages)
        IN  /\ Len(M) = Cardinality(S)
            /\ \A k \in 1..(Len(M) - 1) : M[k].role # M[k + 1].role
            /\ \A s \in S :
                  LET k == Cardinality({t \in S : t <= s})
                  IN  /\ M[k].role = messages[s].role
                      /\ M[k].parts = RunParts(messages, s, RunEnd(messages, s))

\* Two adjacent model turns of one part each became one turn of both parts,
\* next to a turn of another role that was left alone.
C7_Witness ==
    /\ merged.tag = "ok"
    /\ Len(messages) = 3
    /\ messages[1].role = "model" /\ messages[2].role = "model"
    /\ messages[3].role = "user"
    /\ TurnParts(messages[1]) = <<Part(1, 1)>>
    /\ TurnParts(messages[2]) = <<Part(2, 1)>>
    /\ Len(merged.value) = 2
    /\ merged.value[1] = [role |-> "model", parts |-> <<Part(1, 1), Part(2, 1)>>]

\* C8: merge_messages is idempotent: merging the merged list changes nothing.
C8_MergeIdempotent ==
    remerged.tag = "ok" => remerged.value = merged.value

\* The second merge ran on a list the first one had shortened.
C8_Witness ==
    /\ remerged.tag = "ok"
    /\ Len(messages) = 3
    /\ Len(merged.value) = 1
    /\ Len(merged.value[1].parts) >= 3

(***************************************************************************)
(* Claims about inference_to_google (SpecConvert).                         *)
(***************************************************************************)
Returned == result.tag \in {"ok", "none", "raise"}

MappedRoles == {"user", "assistant", "system"}

RolesMapped(i) ==
    \A j \in 1..Len(i.input.messages) : i.input.messages[j].role \in MappedRoles

\* A block the dispatch of render_chat_message accepts for the role.
SupportedIn(role, blk) ==
    \/ blk.type \in {"Text", "RawText", "Thought"}
    \/ blk.type = "ToolCall" /\ role = "assistant"
    \/ blk.type = "ToolResult" /\ role = "user"

\* A block the output loop accepts.
SupportedOut(blk) == blk.type \in {"Text", "Thought", "ToolCall"}

AllSupported(i) ==
    /\ \A j \in 1..Len(i.input.messages) :
          \A b \in 1..Len(i.input.messages[j].content) :
             SupportedIn(i.input.messages[j].role, i.input.messages[j].content[b])
    /\ \A b \in 1..Len(i.output) : SupportedOut(i.output[b])

\* C4: for every record with roles in {user, assistant, system} and only
\* supported blocks, inference_to_google returns a result, and the turns it
\* built before merging are one per input message, in order, plus one for
\* the output.
C4_SupportedAlwaysConverts ==
    (Returned /\ RolesMapped(inf) /\ AllSupported(inf)) =>
        /\ result.tag = "ok"
        /\ Len(rendered_msgs) = Len(inf.input.messages) + 1
        /\ \A j \in 1..Len(inf.input.messages) :
              rendered_msgs[j].role = role_map[inf.input.messages[j].role]
        /\ rendered_msgs[Len(rendered_msgs)].role = "model"

\* C5: for every record that holds an unsupported block anywhere,
\* inference_to_google returns None.
C5_UnsupportedGivesNone ==
    (Returned /\ RolesMapped(inf) /\ ~AllSupported(inf)) => result.tag = "none"

\* The part the output block blk is rendered to.
OutPart(blk) ==
    CASE blk.type = "Text" -> [text |-> blk.text]
      [] blk.type = "Thought" -> [text |-> "<think>" \o blk.text \o "</think>"]
      [] blk.type = "ToolCall" ->
            [functionCall |->
                [name |-> blk.name,
                 args |-> IF blk.args_is_str THEN json_loads(blk.args_str).value
                          ELSE blk.args_dict]]

\* C6: in every converted example the last turn of the merged contents has
\* role "model" and its parts end with the parts rendered from the output,
\* in order; the output turn is the last turn built before merging.
C6_LastTurnIsOutput ==
    result.tag = "ok" =>
        LET c == result.value.google_messages.contents
            last == c[Len(c)]
            n == Len(inf.output)
            preLast == rendered_msgs[Len(rendered_msgs)]
        IN  /\ Len(c) >= 1
            /\ last.role = "model"
            /\ Len(last.parts) >= n
            /\ \A k \in 1..n :
                  last.parts[Len(last.parts) - n + k] = OutPart(inf.output[k])
            /\ Len(rendered_msgs) = Len(inf.input.messages) + 1
            /\ preLast.role = "model"
            /\ preLast.parts = [k \in 1..n |-> OutPart(inf.output[k])]

\* An assistant message was merged with the output turn: the last turn
\* holds the message's part and then the output's.
C6_Witness ==
    /\ result.tag = "ok"
    /\ Len(inf.input.messages) = 1
    /\ inf.input.messages[1].role = "assistant"
    /\ Len(inf.input.messages[1].content) = 1
    /\ Len(inf.output) = 1
    /\ inf.output[1].type = "Thought"
    /\ Len(result.value.google_messages.contents) = 1
    /\ Len(result.value.google_messages.contents[1].parts) = 2

\* C9: role_map is user->user, assistant->model, system->system; a record
\* with a message of any other role yields no converted example, and no
\* emitted turn carries a role outside the mapped ones.
C9_RoleMapTotalAndClosed ==
    /\ DOMAIN role_map = {"user", "assistant", "system"}
    /\ role_map["user"] = "user"
    /\ role_map["assistant"] = "model"
    /\ role_map["system"] = "system"
    /\ (Returned /\ ~RolesMapped(inf)) => result.tag # "ok"
    /\ \A j \in 1..Len(rendered_msgs) : rendered_msgs[j].role \in TurnRoles
    /\ result.tag = "ok" =>
          \A j \in 1..Len(result.value.google_messages.contents) :
             result.value.google_messages.contents[j].role \in TurnRoles

\* A message of role "tool" with only text blocks reached the role_map
\* lookup and the call raised KeyError.
C9_Witness ==
    /\ result.tag = "raise"
    /\ result.exc = "KeyError"
    /\ Len(inf.input.messages) = 1
    /\ inf.input.messages[1].role = "tool"
    /\ Len(inf.input.messages[1].content) = 1
    /\ inf.input.messages[1].content[1].type = "Text"

(***************************************************************************)
(* Claims about the conversion loop and the split (SpecBatch).             *)
(***************************************************************************)
InSeq(x, seq) == \E k \in 1..Len(seq) : seq[k] = x

Occurrences(x, seq) == Cardinality({k \in 1..Len(seq) : seq[k] = x})

EpisodesOf(frame) == {frame[r].episode_id : r \in 1..Len(frame)}

\* C1: the split places every example in exactly one of train_df and
\* val_df, and two examples of one episode are never in different
\* partitions, whatever VAL_FRACTION and the shuffle.
C1_SplitPartitionsByEpisode ==
    pc = "done" =>
        /\ \A r \in 1..Len(df) :
              Occurrences(r, train_df) + Occurrences(r, val_df) = 1
        /\ \A k \in 1..Len(train_df) : train_df[k] \in 1..Len(df)
        /\ \A k \in 1..Len(val_df) : val_df[k] \in 1..Len(df)
        /\ \A r1, r2 \in 1..Len(df) :
              df[r1].episode_id = df[r2].episode_id =>
                 (InSeq(r1, train_df) <=> InSeq(r2, train_df))

\* Both partitions are inhabited and one episode has two examples.
C1_Witness ==
    /\ pc = "done"
    /\ Len(train_df) >= 1
    /\ Len(val_df) >= 1
    /\ \E r1, r2 \in 1..Len(df) :
          r1 # r2 /\ df[r1].episode_id = df[r2].episode_id

\* C2: with fewer than 2 distinct episode ids the split raises: it never
\* completes with a train/validation pair.
C2_FewEpisodesRaises ==
    pc = "done" => Cardinality(EpisodesOf(df)) >= 2

\* The records of the batch inference_to_google gives a result for, as
\* payloads, in input order.
RECURSIVE ConvertiblePayloads(_, _)
ConvertiblePayloads(infs, i) ==
    IF i > Len(infs) THEN <<>>
    ELSE LET r == inference_to_google(infs[i])
         IN  (IF r.tag = "ok" THEN <<r.value>> ELSE <<>>)
             \o ConvertiblePayloads(infs, i + 1)

\* C3: one record's failure never aborts the batch: the loop always runs to
\* its end, and then google_payloads holds every other record's payload, in
\* input order.
C3_FailureNeverAbortsBatch ==
    /\ pc # "convert_raised"
    /\ pc \in {"split", "done", "split_raised"} =>
          google_payloads = ConvertiblePayloads(rendered_inferences, 1)

(***************************************************************************)
(* Claims about the poll loop (FairSpecPoll).                              *)
(***************************************************************************)
TerminalStates ==
    {"JOB_STATE_SUCCEEDED", "JOB_STATE_FAILED", "JOB_STATE_CANCELLED"}

PollExited == poll_pc \in {"done", "raised"}

\* C10: a status read that returns succeeded, failed or cancelled ends the
\* loop in that iteration; a read of any other state goes on to the refresh
\* and the next iteration, with no timeout or iteration bound, so the loop
\* only breaks on a terminal state; and once the job is in one of the three
\* states the loop eventually ends.
C10_PollTerminatesOnTerminal ==
    /\ [][(ReadState /\ response \in TerminalStates) => poll_pc' = "done"]_vars
    /\ [][(ReadState /\ response \notin TerminalStates) => poll_pc' = "refresh"]_vars
    /\ [][Refresh => poll_pc' = "read"]_vars
    /\ [](poll_pc = "done" => job_state \in TerminalStates)
    /\ [](job \in TerminalStates => <>PollExited)

\* The loop read the cancelled state and broke on it.
C10_Witness ==
    /\ poll_pc = "done"
    /\ job_state = "JOB_STATE_CANCELLED"

\* C11: an error raised while polling the job in one iteration, by the read
\* of the job state or by the refresh of the job, is swallowed in that
\* iteration and the loop goes on to its next step; the loop only ever ends
\* having observed a terminal state, never by a polling error that leaves it.
C11_PollErrorsSwallowed ==
    /\ [][(ReadStateRaises \/ RefreshRaises) => poll_pc' \in {"read", "refresh"}]_vars
    /\ [](PollExited => (poll_pc = "done" /\ job_state \in TerminalStates))

(***************************************************************************)
(* Claims about one run of the notebook (SpecRun).                         *)
(***************************************************************************)
Called(call) == \E i \in 1..Len(network) : network[i] = call

Calls(call) == Cardinality({i \in 1..Len(network) : network[i] = call})

UploadCellOf(name) ==
    IF name = train_file_name THEN "upload_train" ELSE "upload_val"

\* C12: an upload to a name that already has an object in the bucket fails
\* with an error (the failed precondition, or a transport error) that ends
\* the run at the upload, the object that was there is unchanged, the upload
\* was made once only, and no fine-tuning job is submitted.
C12_UploadNeverOverwrites ==
    \A name \in ObjectNames :
        (Called("upload " \o name) /\ bucket0.objects[name] # "absent") =>
            /\ run_error \in {"PreconditionFailed", "TransportError"}
            /\ run_pc = UploadCellOf(name)
            /\ bucket.objects[name] = bucket0.objects[name]
            /\ Calls("upload " \o name) = 1
            /\ ~Called("sft_train")

\* The validation upload met an object of its name, after the training
\* upload had gone through.
C12_Witness ==
    /\ Called("upload " \o val_file_name)
    /\ bucket0.objects[val_file_name] = "old"
    /\ bucket.objects[val_file_name] = "old"
    /\ bucket.objects[train_file_name] = "train_df"
    /\ run_error = "PreconditionFailed"

\* The configuration lacks the named function, the named template variant
\* or the named metric.
ConfigInvalid ==
    \/ FUNCTION_NAME \notin config.functions
    \/ TEMPLATE_VARIANT_NAME \notin config.variants
    \/ METRIC_NAME \notin config.metrics

\* The cells up to the last of the asserts on function, variant and metric.
ConfigCells ==
    {"vertexai_init", "build_embedded", "load_config", "validate_config",
     "metric_config"}

\* C13 as stated: a run whose configuration lacks the function, the variant
\* or the metric never gets past the cells that check it and makes no call
\* to a remote service at all, the connection to the data store included.
C13_InvalidConfigNoNetworkCall ==
    ConfigInvalid =>
        /\ run_pc \in ConfigCells
        /\ run_error \in {"none", "AssertionError"}
        /\ network = <<>>

\* C13, amended: a run whose configuration lacks the function, the variant
\* or the metric is ended by the failed assert of the cell that checks it,
\* and never gets past those cells: it makes no inference query, no upload
\* and no job submission.  The only call it makes is the connection to the
\* data store, opened when the client is built, before the checks.
C13_InvalidConfigNoQuery ==
    /\ [](ConfigInvalid =>
            /\ run_pc \in ConfigCells
            /\ run_error \in {"none", "AssertionError"}
            /\ \A i \in 1..Len(network) : network[i] = "clickhouse_connect"
            /\ Len(network) <= 1)
    /\ [][(ValidateConfig /\ ~validate_config(config))
            => run_error' = "AssertionError"]_vars
    /\ [][(MetricConfig /\ ConfigInvalid) => run_error' = "AssertionError"]_vars

\* The run ended at the assert on the metric, the connection to the data
\* store made.
C13_Witness ==
    /\ METRIC_NAME \notin config.metrics
    /\ validate_config(config)
    /\ run_pc = "metric_config"
    /\ run_error = "AssertionError"
    /\ network = <<"clickhouse_connect">>

\* The exact value of floor(n * (1 - val_fraction)), val_fraction being t
\* tenths.
exact_floor(n, t) == (n * (10 - t)) \div 10

\* C14: with n distinct episode ids the training episodes are exactly the
\* first floor(n * (1 - val_fraction)) episodes of the shuffled order and the
\* validation episodes the remaining n - floor(n * (1 - val_fraction)); the
\* two sets are disjoint and together are all n episodes.
C14_SplitAtFloor ==
    pc = "done" =>
        LET n == Len(unique_episode_ids)
            k == exact_floor(n, VAL_FRACTION)
            train_episodes == {df[train_df[i]].episode_id : i \in 1..Len(train_df)}
            val_episodes == {df[val_df[i]].episode_id : i \in 1..Len(val_df)}
        IN  /\ n = Cardinality(EpisodesOf(df))
            /\ train_episodes = {unique_episode_ids[i] : i \in 1..k}
            /\ val_episodes = {unique_episode_ids[i] : i \in (k + 1)..n}
            /\ Cardinality(train_episodes) = k
            /\ Cardinality(val_episodes) = n - k
            /\ train_episodes \cap val_episodes = {}
            /\ train_episodes \cup val_episodes = EpisodesOf(df)

(***************************************************************************)
(* Claims about the scheduled workflow (FairSpecWorkflow).                 *)
(***************************************************************************)
Started == {"running", "success", "failure"}

Finished == {"success", "failure"}

\* A submission job that is pending can be evaluated, and one that is queued
\* can start, whatever the others are doing.
SubmissionsIndependent ==
    \A j \in BatchJobs :
        /\ jobs[j] = "pending" => ENABLED (QueueJob(j) \/ SkipJob(j))
        /\ jobs[j] = "queued" => ENABLED StartJob(j)

\* C15 as stated: the three submission jobs wait for nothing; log-completion
\* never starts while one of the three is pending, queued or running; and
\* once all three have finished, with whatever outcome, log-completion runs.
C15_LogRunsAfterAllFinished ==
    /\ SubmissionsIndependent
    /\ jobs["log-completion"] \in Started =>
          \A j \in BatchJobs : jobs[j] \in Finished
    /\ (\A j \in BatchJobs : jobs[j] \in Finished) =>
          jobs["log-completion"] # "skipped"

\* C15, amended: the three submission jobs wait for nothing; log-completion
\* never starts while one of the three is pending, queued or running, nor
\* after one of them failed or was skipped; it runs once all three have
\* succeeded, and it is skipped once all three have completed and one did
\* not succeed.
C15_LogRunsAfterAllSucceeded ==
    /\ []SubmissionsIndependent
    /\ [](jobs["log-completion"] \in Started =>
            \A j \in BatchJobs : jobs[j] = "success")
    /\ ((\A j \in BatchJobs : jobs[j] = "success")
            ~> jobs["log-completion"] \in Finished)
    /\ ((/\ \A j \in BatchJobs : jobs[j] \in Completed
         /\ \E j \in BatchJobs : jobs[j] # "success")
            ~> jobs["log-completion"] = "skipped")

\* log-completion ran after the three submissions succeeded.
C15_Witness ==
    /\ \A j \in BatchJobs : jobs[j] = "success"
    /\ jobs["log-completion"] = "success"

(***************************************************************************)
(* Block preservation by inference_to_google (SpecConvert).                *)
(***************************************************************************)
\* The part a block of an input message is rendered to.
InPart(blk) ==
    CASE blk.type = "RawText" -> [text |-> blk.value]
      [] blk.type = "ToolResult" ->
            [functionResponse |->
                [name |-> blk.name, response |-> [result |-> blk.result]]]
      [] OTHER -> OutPart(blk)

RECURSIVE FlatParts(_, _)
\* The parts of the turns from turn i on, end to end.
FlatParts(turns, i) ==
    IF i > Len(turns) THEN <<>>
    ELSE TurnParts(turns[i]) \o FlatParts(turns, i + 1)

RECURSIVE InputParts(_, _)
\* One part per block of the messages from message i on, in order.
InputParts(msgs, i) ==
    IF i > Len(msgs) THEN <<>>
    ELSE [k \in 1..Len(msgs[i].content) |-> InPart(msgs[i].content[k])]
         \o InputParts(msgs, i + 1)

\* C16: for every record inference_to_google converts, the parts of the
\* merged turns taken end to end are one part per content block of the input
\* messages, then one part per output block, in the original order; and
\* after the merge every turn handed to merge_messages still holds exactly
\* the parts it was rendered to.
C16_BlocksPreserved ==
    result.tag = "ok" =>
        LET c == result.value.google_messages.contents
            msgs == inf.input.messages
            out_parts == [k \in 1..Len(inf.output) |-> OutPart(inf.output[k])]
        IN  /\ FlatParts(c, 1) = InputParts(msgs, 1) \o out_parts
            /\ Len(rendered_msgs) = Len(msgs) + 1
            /\ \A j \in 1..Len(msgs) :
                  rendered_msgs[j].parts =
                      [k \in 1..Len(msgs[j].content) |-> InPart(msgs[j].content[k])]
            /\ rendered_msgs[Len(msgs) + 1].parts = out_parts

\* An assistant message of one block was merged with the output turn of one
\* block: one merged turn of two parts, the message's turn still of one.
C16_Witness ==
    /\ result.tag = "ok"
    /\ Len(inf.input.messages) = 1
    /\ inf.input.messages[1].role = "assistant"
    /\ Len(inf.input.messages[1].content) = 1
    /\ Len(inf.output) = 1
    /\ Len(result.value.google_messages.contents) = 1
    /\ Len(result.value.google_messages.contents[1].parts) = 2
    /\ Len(rendered_msgs[1].parts) = 1

====
